---- MODULE Spec2Model ----
(***************************************************************************)
(* Social login over OAuth 2.0 (Flask): one browser session served by the  *)
(* routes of src/app/routes/auth.py, which call OAuthService of            *)
(* src/app/services/oauth.py.  One action per route; every action is the   *)
(* whole request, from the route's first line to the response it returns.  *)
(*                                                                         *)
(* A session key holds Absent (<<>>) or Some(v) (<<v>>), so that "key not  *)
(* in the session" and Python's None are one value, as session.get sees    *)
(* them.                                                                   *)
(***************************************************************************)
EXTENDS Integers, FiniteSets, Sequences, TLC

\* ------------------------------------------------------------------ bounds
\* Number of distinct 16-byte values os.urandom hands out in one behaviour.
MaxNonce == 2

\* Number of callback requests of the session that can be in progress at once.
MaxThreads == 2

\* ------------------------------------------------------- values and helpers
Absent == <<>>
Some(v) == <<v>>
Get(o) == o[1]

\* OAuthProvider (oauth.py:21-25).
OAuthProvider == {"google", "facebook", "linkedin"}

\* Provider names a request path can carry: the three members and one other.
ProviderNames == OAuthProvider \cup {"twitter"}

\* The values os.urandom(16).hex() can produce, abstracted to 1..MaxNonce.
Nonces == 1..MaxNonce

\* request.args.get("state"): absent, or one of the nonce values.
ReceivedStates == {Absent} \cup {Some(n) : n \in Nonces}

\* request.args.get("code"), read during the token exchange (oauth.py:125
\* and inside the client library): absent or an authorization code.
ReceivedCodes == {Absent, Some("code")}

\* url_for(endpoint, provider=...): the URL is determined by the endpoint and
\* the provider path segment ("" for endpoints without one).  The scheme is
\* the same in every call of a process (settings.DEBUG is read at import).
url_for(endpoint, provider) == [endpoint |-> endpoint, provider |-> provider]

\* The keys the routes and the service read or write with session[...],
\* session.get and session.pop; "_flashes" is the key flask.flash appends to.
SessionKeys == {"oauth_state", "redirect_path", "user_data", "user", "_flashes"}

EmptySession == [k \in SessionKeys |-> Absent]

\* A logout that removes the profile only.
session_clear_user_data_only(s) == [s EXCEPT !["user_data"] = Absent]

\* session.clear() (auth.py:96).
session_clear(s) == EmptySession

\* A pop that leaves the key in the session.
session_pop_keeping_key(s, key) == s

\* session.pop(key, None) as a state change.
session_pop(s, key) == [s EXCEPT ![key] = Absent]

\* session.setdefault(key, value): a key already present keeps its value.
session_set_keeping_present(s, key, value) ==
    IF s[key] = Absent THEN [s EXCEPT ![key] = Some(value)] ELSE s

\* session[key] = value.
session_set(s, key, value) == [s EXCEPT ![key] = Some(value)]

\* "user_data is None" in place of "not user_data": {} counts as a profile.
falsy_only_none(user_data) == user_data = Absent

\* Python's "not user_data" (oauth.py:176, auth.py:57, auth.py:74): None or {}.
falsy(user_data) == user_data = Absent \/ DOMAIN Get(user_data) = {}

\* get_provider falling back to google for a name that is no enum member.
get_provider_defaulting_to_google(provider_name) ==
    IF provider_name = "linkedin" THEN Some("linkedin")
    ELSE IF provider_name = "facebook" THEN Some("facebook")
    ELSE Some("google")

\* get_provider (utils.py:4-11): the enum member, or None.
get_provider(provider_name) ==
    IF provider_name = "google" THEN Some("google")
    ELSE IF provider_name = "linkedin" THEN Some("linkedin")
    ELSE IF provider_name = "facebook" THEN Some("facebook")
    ELSE Absent

\* self.clients.get(provider) (oauth.py:91, 122, 197): the clients dict has
\* the three enum members as keys (oauth.py:39-43).
clients_get(provider) ==
    IF provider # Absent /\ Get(provider) \in OAuthProvider THEN provider ELSE Absent

\* ------------------------------------------------------------ the exceptions
NoError == "none"
UnsupportedProvider == "BadRequest: Unsupported provider"
InvalidState == "BadRequest: Invalid state parameter."
FailedToFetchToken == "BadRequest: Failed to fetch access token"
FailedToFetchUserData == "InternalServerError: Failed to fetch user data."
\* raised inside the OAuth client library / httpx / Python itself
MetadataError == "authorize_redirect: server metadata request failed"
AttributeError == "AttributeError: 'NoneType' object has no attribute 'authorize_access_token'"
BadRequestKeyError == "BadRequestKeyError: 'code'"
MismatchingStateError == "MismatchingStateError"
OAuthError == "OAuthError"
JSONDecodeError == "JSONDecodeError"
ConnectionError == "ConnectionError"
SettingsImportError == "ImportError: cannot import name 'settings' from 'src.config'"

\* ------------------------------------------------------------------- state
VARIABLES
    session,     \* the Flask session of one browser: SessionKeys -> Absent | Some
    state_data,  \* the library's "_state_<name>_<state>" session entries
    issued,      \* the values os.urandom has returned so far
    last,        \* the request served last: its inputs, what it did, its answer
    env,         \* the credentials the environment (or .env) defines
    app,         \* the process: "starting", "serving" or "failed"
    history,     \* what the requests served so far have done (see observe)
    threads      \* the callback requests in progress, each with its own session copy

vars == <<session, state_data, issued, last, env, app, history, threads>>

\* The responses a route produces.
Redirect(url) == [kind |-> "redirect", url |-> url, state |-> Absent,
                  redirect_uri |-> Absent, user |-> Absent]
AuthorizeRedirect(provider, redirect_uri, state) ==
    [kind |-> "redirect", url |-> [endpoint |-> "authorize_url", provider |-> provider],
     state |-> Some(state), redirect_uri |-> Some(redirect_uri), user |-> Absent]
Render(template, user) ==
    [kind |-> "render", url |-> [endpoint |-> template, provider |-> ""],
     state |-> Absent, redirect_uri |-> Absent, user |-> user]

\* What a request did, with defaults for the steps it never reached.
Request(op) ==
    [op |-> op,
     provider |-> "",               \* the <provider> path segment
     state |-> Absent,              \* request.args.get("state")
     pre |-> session,               \* the session when the request arrived
     pre_issued |-> issued,         \* the nonces handed out before the request
     code |-> Absent,               \* request.args.get("code"), where it was read
     error |-> NoError,             \* the exception the service raised
     validated |-> FALSE,           \* passed the state comparison (oauth.py:167)
     token_request |-> Absent,      \* redirect_uri of the token request, if one was sent
     token_status |-> Absent,       \* what the token endpoint answered
     profile_request |-> FALSE,     \* a user-info request was sent
     profile_status |-> Absent,     \* what the user-info endpoint answered
     profile_body |-> Absent,       \* the JSON body of a 200 user-info answer
     returned |-> Absent,           \* the destination handle_oauth_callback returns
     response |-> Render("", Absent)]

\* The record of a session's past, kept beside the program's state and read
\* by no handler:
\*   latest      the most recent start that stored a state: that state, and
\*               the redirect_uri of the authorization redirect it returned
\*               (Absent when it returned none)
\*   overwritten the states a later start replaced while they were stored
\*   accepted    the states of the callbacks that passed the state comparison
\*   logged_in   a callback passed the three gates since the last logout
NoHistory ==
    [latest |-> Absent, overwritten |-> {}, accepted |-> {}, logged_in |-> FALSE]

\* The history after a request, from the request's inputs, the answers it
\* met and the session before and after it.
observe(h, request, after) ==
    LET stored == request.pre["oauth_state"]
    IN  IF request.op = "start" /\ request.provider \in OAuthProvider
        THEN [h EXCEPT
                !.latest = Some([state |-> Get(after["oauth_state"]),
                                 provider |-> request.provider,
                                 redirect_uri |-> request.response.redirect_uri]),
                !.overwritten = IF stored = Absent THEN @ ELSE @ \cup {Get(stored)}]
        ELSE IF request.op = "callback" /\ stored # Absent /\ request.state = stored
        THEN [h EXCEPT
                !.accepted = @ \cup {Get(stored)},
                !.logged_in = \/ @
                              \/ /\ request.token_status = Some("200")
                                 /\ request.profile_status = Some("200")
                                 /\ request.profile_body # Absent
                                 /\ DOMAIN Get(request.profile_body) # {}]
        ELSE IF request.op = "logout"
        THEN [h EXCEPT !.logged_in = FALSE]
        ELSE h

\* The request threads of the server, and a thread that serves no request.
Threads == 1..MaxThreads

Idle ==
    [pc |-> "idle", session |-> EmptySession, state_data |-> {}, provider |-> "",
     state |-> Absent, validated |-> FALSE, token_request |-> Absent,
     error |-> NoError]

\* The required fields of Config (config.py:9-14).
Credentials ==
    {"GOOGLE_CLIENT_ID", "GOOGLE_CLIENT_SECRET", "FACEBOOK_CLIENT_ID",
     "FACEBOOK_CLIENT_SECRET", "LINKEDIN_CLIENT_ID", "LINKEDIN_CLIENT_SECRET"}

Init ==
    /\ session = EmptySession
    /\ state_data = {}
    /\ issued = {}
    /\ last = Request("init")
    /\ env \in SUBSET Credentials
    /\ app = "starting"
    /\ history = NoHistory
    /\ threads = [i \in Threads |-> Idle]

\* A Config whose fields all have defaults.
load_settings_with_defaults(environment) == Some(environment)

\* config.py:27-30: settings = Config() validates that every required field
\* is defined; the ValidationError of a missing one is caught and printed,
\* and the module is left without the name settings.
load_settings(environment) ==
    IF Credentials \subseteq environment THEN Some(environment) ELSE Absent

\* create_app (app/__init__.py:9-32).  Registering the routes (line 26)
\* imports the service module, whose "from src.config import settings"
\* (oauth.py:9) raises ImportError when config.py left no settings; the
\* exception leaves create_app, so no application is returned to serve.
create_app ==
    /\ app = "starting"
    /\ LET settings == load_settings(env)
       IN  IF settings = Absent
           THEN /\ app' = "failed"
                /\ last' = [Request("create_app") EXCEPT !.error = SettingsImportError]
           ELSE /\ app' = "serving"
                /\ last' = Request("create_app")
    /\ UNCHANGED <<session, state_data, issued, env, history, threads>>

\* A request is served by a started application, which it leaves running.
Serving == app = "serving" /\ UNCHANGED <<env, app, threads>>

\* Every request is entered in the history.
Observed == history' = observe(history, last', session')

\* os.urandom(16).hex() (oauth.py:104): 128 random bits.  The model takes the
\* cryptographic assumption that a value is not handed out twice, and, the
\* values being interchangeable, lets the next draw be the least unused one
\* (a request can still carry any value of Nonces, drawn or not).
os_urandom(seen) ==
    IF Nonces \ seen = {} THEN {}
    ELSE {CHOOSE n \in Nonces \ seen : \A m \in Nonces \ seen : n <= m}

\* A start that keeps the state of a login still pending in the session.
new_state_reusing_pending(s, seen) ==
    IF s["oauth_state"] # Absent THEN {Get(s["oauth_state"])} ELSE os_urandom(seen)

\* The state value initiate_social_login uses (oauth.py:104): always a new draw.
new_state(s, seen) == os_urandom(seen)

\* oauth_client.authorize_redirect (oauth.py:108) can fail for google only:
\* the google client is registered with server_metadata_url (oauth.py:51), so
\* building its authorization URL needs a metadata request; facebook and
\* linkedin are registered with a fixed authorize_url (oauth.py:62, 74).
metadata_request_can_fail(provider) == provider = "google"

\* GET /auth/<provider>: social_login (auth.py:24-41) calling
\* initiate_social_login (oauth.py:79-108).
social_login(provider_name) ==
    /\ Serving
    /\ LET provider == get_provider(provider_name)
           oauth_client == clients_get(provider)
           req == [Request("start") EXCEPT !.provider = provider_name]
       IN  IF oauth_client = Absent
           THEN \* oauth.py:92-93, caught at auth.py:38-41
                /\ session' = session_set(session, "_flashes", "Failed to initiate social login.")
                /\ last' = [req EXCEPT !.error = UnsupportedProvider,
                                       !.response = Redirect(url_for("auth.index", ""))]
                /\ UNCHANGED <<state_data, issued>>
           ELSE LET redirect_uri == url_for("auth.auth_callback", Get(provider))
                IN  \E state \in new_state(session, issued) :
                       LET s1 == session_set(session, "redirect_path", redirect_uri)
                           s2 == session_set(s1, "oauth_state", state)
                       IN  /\ issued' = issued \cup {state}
                           /\ \/ \* authorize_redirect saves its entry and returns
                                 /\ session' = s2
                                 /\ state_data' = state_data \cup
                                        {[name |-> Get(provider), state |-> state,
                                          redirect_uri |-> redirect_uri]}
                                 /\ last' = [req EXCEPT
                                        !.response = AuthorizeRedirect(Get(provider), redirect_uri, state)]
                              \/ \* authorize_redirect raises, caught at auth.py:38-41
                                 /\ metadata_request_can_fail(Get(provider))
                                 /\ session' = session_set(s2, "_flashes", "Failed to initiate social login.")
                                 /\ state_data' = state_data
                                 /\ last' = [req EXCEPT !.error = MetadataError,
                                        !.response = Redirect(url_for("auth.index", ""))]
    /\ Observed

\* GET /logout: logout (auth.py:88-98).  session.clear() also drops the
\* library's state entries, which live in the same session.
logout ==
    /\ Serving
    /\ session' = session_clear(session)
    /\ state_data' = {}
    /\ last' = [Request("logout") EXCEPT !.response = Redirect(url_for("auth.index", ""))]
    /\ UNCHANGED issued
    /\ Observed

\* GET /: index (auth.py:13-22).
index ==
    /\ Serving
    /\ last' = [Request("index") EXCEPT !.response = Render("index.html", session["user"])]
    /\ UNCHANGED <<session, state_data, issued>>
    /\ Observed

\* GET /success: success (auth.py:65-76).
success ==
    /\ Serving
    /\ LET user_data == session["user_data"]
       IN  /\ last' = [Request("success") EXCEPT !.response =
                          IF falsy(user_data)
                          THEN Redirect(url_for("auth.failure", ""))
                          ELSE Render("success.html", user_data)]
           /\ UNCHANGED <<session, state_data, issued>>
    /\ Observed

\* GET /failure: failure (auth.py:78-86).
failure ==
    /\ Serving
    /\ last' = [Request("failure") EXCEPT !.response = Render("failure.html", Absent)]
    /\ UNCHANGED <<session, state_data, issued>>
    /\ Observed

\* ------------------------------------------------------------ the callback
\* What an outbound request can meet: an answer with status 200 and a JSON
\* body, an answer with another status, an answer with status 200 whose body
\* is not JSON (empty or malformed), or no answer at all.
HttpOutcomes == {"200", "401", "200 malformed", "no answer"}

\* The fields the user-info endpoints called at oauth.py:200-206 can answer
\* with: facebook is asked for id,name,email,picture (oauth.py:203), Google's
\* oauth2/v1/userinfo answers with id, LinkedIn's OpenID userinfo with sub.
ResponseFields(provider) ==
    IF provider = "linkedin" THEN {"sub", "name", "email", "picture"}
    ELSE {"id", "name", "email", "picture"}

\* The value a provider reports for a field of the account that logs in.
FieldValue(field) == <<"value of", field>>

\* The field sets of the answers the model draws: with or without the
\* identifier, and with or without name, email and picture.  The code never
\* looks inside a body (only at its being empty), so which of the three are
\* missing makes no difference to it.
ResponseFieldSets(provider) ==
    {identifier \cup others :
        identifier \in SUBSET (ResponseFields(provider) \ {"name", "email", "picture"}),
        others \in {{}, {"name", "email", "picture"}}}

\* The JSON objects a user-info endpoint can answer with, {} included.
ResponseBodies(provider) ==
    {[f \in fields |-> FieldValue(f)] : fields \in ResponseFieldSets(provider)}

\* The comparison without its "not stored_state" half.
state_invalid_without_missing_check(stored_state, received_state) ==
    stored_state # received_state

\* The state comparison of handle_oauth_callback (oauth.py:167).  The stored
\* state is never the empty string: it is the hex form of 16 bytes.
state_invalid(stored_state, received_state) ==
    stored_state = Absent \/ stored_state # received_state

\* The linkedin branch without its status check (oauth.py:144-147).
linkedin_token_error_without_status_check(status) ==
    IF status = "no answer" THEN ConnectionError
    ELSE IF status = "200 malformed" THEN JSONDecodeError
    ELSE NoError

\* The exception get_token's linkedin branch ends with (oauth.py:142-148).
linkedin_token_error(status) ==
    IF status = "no answer" THEN ConnectionError
    ELSE IF status # "200" /\ status # "200 malformed" THEN FailedToFetchToken
    ELSE IF status = "200 malformed" THEN JSONDecodeError
    ELSE NoError

\* The exception the library's token request ends with (oauth.py:150).
library_token_error(status) ==
    IF status = "no answer" THEN ConnectionError
    ELSE IF status = "401" THEN OAuthError
    ELSE IF status = "200 malformed" THEN JSONDecodeError
    ELSE NoError

TokenResult(token_request, token_status, error, sd) ==
    [token_request |-> token_request, token_status |-> token_status,
     error |-> error, state_data |-> sd]

\* authorize_access_token finding no entry saved by authorize_redirect.
authorize_access_token_without_saved_state(name, code, received_state, sd) ==
    IF code = Absent
    THEN {TokenResult(Absent, Absent, BadRequestKeyError, sd)}
    ELSE {TokenResult(Absent, Absent, MismatchingStateError, sd)}

\* oauth_client.authorize_access_token() (oauth.py:150): reads
\* request.args['code'], takes the entry saved by authorize_redirect for this
\* client and the received state out of the session, and sends the token
\* request with the redirect_uri saved in that entry.
authorize_access_token(name, code, received_state, sd) ==
    LET entries == {e \in sd : e.name = name /\ Some(e.state) = received_state}
        cleared == sd \ entries
    IN  IF code = Absent
        THEN {TokenResult(Absent, Absent, BadRequestKeyError, sd)}
        ELSE IF entries = {}
        THEN {TokenResult(Absent, Absent, MismatchingStateError, cleared)}
        ELSE {TokenResult(Some(e.redirect_uri), Some(status), library_token_error(status), cleared) :
                 e \in entries, status \in HttpOutcomes}

\* get_token (oauth.py:110-150): the ways the token exchange can end.
get_token(provider, code, received_state, sd) ==
    LET oauth_client == clients_get(provider)
    IN  IF provider = Some("linkedin")
        THEN {TokenResult(Some(url_for("auth.auth_callback", Get(provider))), Some(status),
                          linkedin_token_error(status), sd) : status \in HttpOutcomes}
        ELSE IF oauth_client = Absent
        THEN {TokenResult(Absent, Absent, AttributeError, sd)}
        ELSE authorize_access_token(Get(oauth_client), code, received_state, sd)

\* The JSON body of a user-info answer with an error status.
ErrorBody == [f \in {"error"} |-> FieldValue(f)]

\* The answers of a user-info endpoint: status and JSON body (Absent when the
\* body is not JSON, or when there is no answer).
ProfileAnswers(provider) ==
    {[status |-> "200", body |-> Some(body)] : body \in ResponseBodies(provider)}
    \cup {[status |-> "401", body |-> Some(ErrorBody)],
          [status |-> "200 malformed", body |-> Absent],
          [status |-> "no answer", body |-> Absent]}

\* fetch_user_data returning the JSON body whatever the status.
user_data_of_any_status(status, body) == body

\* What fetch_user_data returns for an answer (oauth.py:208-216):
\* response.json() of a 200 answer, None for another status; the request or
\* json() raising is caught and gives None as well.
user_data_of(status, body) ==
    IF status = "200" THEN body ELSE Absent

\* fetch_user_data (oauth.py:185-216): the ways the profile fetch can end.
fetch_user_data(provider) ==
    {[profile_status |-> Some(answer.status), profile_body |-> answer.body,
      user_data |-> user_data_of(answer.status, answer.body)] :
        answer \in ProfileAnswers(Get(provider))}

\* The write of user_data that leaves redirect_path in the session.
store_user_data_without_pop(s, user_data) ==
    session_set(s, "user_data", Get(user_data))

\* The session after the three gates passed (oauth.py:180-181).
store_user_data(s, user_data) ==
    session_pop(session_set(s, "user_data", Get(user_data)), "redirect_path")

\* session.pop("redirect_path", url_for("auth.success")) (oauth.py:181).
pop_redirect_path(s) ==
    IF s["redirect_path"] = Absent THEN url_for("auth.success", "") ELSE Get(s["redirect_path"])

\* auth_callback deciding on session["user_data"] alone, whatever was raised.
callback_response_ignoring_error(error, s) ==
    IF ~falsy(s["user_data"]) THEN Redirect(url_for("auth.success", ""))
    ELSE Redirect(url_for("auth.failure", ""))

\* The answer of auth_callback (auth.py:54-63) for the exception the service
\* raised (NoError: none) and the session the service left.
callback_response(error, s) ==
    IF error # NoError THEN Redirect(url_for("auth.failure", ""))
    ELSE IF ~falsy(s["user_data"]) THEN Redirect(url_for("auth.success", ""))
    ELSE Redirect(url_for("auth.failure", ""))

\* GET /auth/<provider>/callback: auth_callback (auth.py:43-63) calling
\* handle_oauth_callback (oauth.py:152-183).
auth_callback(provider_name, received_state) ==
    /\ Serving
    /\ LET provider == get_provider(provider_name)
           stored_state == session["oauth_state"]
           req == [Request("callback") EXCEPT !.provider = provider_name,
                                              !.state = received_state]
       IN  IF state_invalid(stored_state, received_state)
           THEN \* oauth.py:167-169
                /\ last' = [req EXCEPT !.error = InvalidState,
                                       !.response = callback_response(InvalidState, session)]
                /\ UNCHANGED <<session, state_data, issued>>
           ELSE LET s1 == session_pop(session, "oauth_state")
                IN  \E code \in ReceivedCodes :
                    \E token \in get_token(provider, code, received_state, state_data) :
                       LET req1 == [req EXCEPT !.validated = TRUE, !.code = code,
                                               !.token_request = token.token_request,
                                               !.token_status = token.token_status]
                       IN  /\ state_data' = token.state_data
                           /\ UNCHANGED issued
                           /\ IF token.error # NoError
                              THEN /\ session' = s1
                                   /\ last' = [req1 EXCEPT !.error = token.error,
                                          !.response = callback_response(token.error, s1)]
                              ELSE \E profile \in fetch_user_data(provider) :
                                     LET req2 == [req1 EXCEPT !.profile_request = TRUE,
                                                     !.profile_status = profile.profile_status,
                                                     !.profile_body = profile.profile_body]
                                     IN  IF falsy(profile.user_data)
                                         THEN \* oauth.py:176-178
                                              /\ session' = s1
                                              /\ last' = [req2 EXCEPT !.error = FailedToFetchUserData,
                                                     !.response = callback_response(FailedToFetchUserData, s1)]
                                         ELSE LET s2 == store_user_data(s1, profile.user_data)
                                              IN  /\ session' = s2
                                                  /\ last' = [req2 EXCEPT
                                                         !.returned = Some(pop_redirect_path(s1)),
                                                         !.response = callback_response(NoError, s2)]
    /\ Observed

Start == \E provider_name \in ProviderNames : social_login(provider_name)

Callback ==
    \E provider_name \in ProviderNames, received_state \in ReceivedStates :
        auth_callback(provider_name, received_state)

Next == create_app \/ Start \/ Callback \/ logout \/ index \/ success \/ failure

Spec == Init /\ [][Next]_vars

\* ------------------------------------------- callbacks served concurrently
\* The session is server-side (SESSION_TYPE "filesystem", Session(app):
\* app/__init__.py:13-21): a request works on the copy loaded when it
\* arrives and the copy is written back when it ends.  Each thread below
\* serves one callback in the steps of auth_callback and
\* handle_oauth_callback; no step takes a lock.

\* A callback request arrives and its session is loaded.
open_session(i, provider_name, received_state) ==
    /\ app = "serving"
    /\ threads[i].pc = "idle"
    /\ threads' = [threads EXCEPT ![i] =
           [Idle EXCEPT !.pc = "opened", !.session = session, !.state_data = state_data,
                        !.provider = provider_name, !.state = received_state]]
    /\ UNCHANGED <<session, state_data, issued, last, env, app, history>>

\* oauth.py:165-171 on the request's copy of the session.
validate_state(i) ==
    LET thread == threads[i]
    IN  /\ thread.pc = "opened"
        /\ threads' = [threads EXCEPT ![i] =
               IF state_invalid(thread.session["oauth_state"], thread.state)
               THEN [thread EXCEPT !.pc = "responded", !.error = InvalidState]
               ELSE [thread EXCEPT !.pc = "validated", !.validated = TRUE,
                                   !.session = session_pop(thread.session, "oauth_state")]]
        /\ UNCHANGED <<session, state_data, issued, last, env, app, history>>

\* oauth.py:173-183 on the request's copy of the session.
exchange_and_fetch(i) ==
    LET thread == threads[i]
        provider == get_provider(thread.provider)
    IN  /\ thread.pc = "validated"
        /\ \E code \in ReceivedCodes :
           \E token \in get_token(provider, code, thread.state, thread.state_data) :
              LET t1 == [thread EXCEPT !.pc = "handled", !.token_request = token.token_request,
                                       !.state_data = token.state_data]
              IN  IF token.error # NoError
                  THEN threads' = [threads EXCEPT ![i] = [t1 EXCEPT !.error = token.error]]
                  ELSE \E profile \in fetch_user_data(provider) :
                         threads' = [threads EXCEPT ![i] =
                            IF falsy(profile.user_data)
                            THEN [t1 EXCEPT !.error = FailedToFetchUserData]
                            ELSE [t1 EXCEPT !.session =
                                     store_user_data(thread.session, profile.user_data)]]
        /\ UNCHANGED <<session, state_data, issued, last, env, app, history>>

\* The request ends: the session it changed is written back.
save_session(i) ==
    LET thread == threads[i]
    IN  /\ thread.pc = "handled"
        /\ session' = thread.session
        /\ state_data' = thread.state_data
        /\ threads' = [threads EXCEPT ![i].pc = "responded"]
        /\ UNCHANGED <<issued, last, env, app, history>>

\* A start, served while no callback is in progress.
start_alone ==
    /\ \A i \in Threads : threads[i].pc \in {"idle", "responded"}
    /\ Start

OpenSession ==
    \E i \in Threads, provider_name \in ProviderNames, received_state \in ReceivedStates :
        open_session(i, provider_name, received_state)

ValidateState == \E i \in Threads : validate_state(i)

ExchangeAndFetch == \E i \in Threads : exchange_and_fetch(i)

SaveSession == \E i \in Threads : save_session(i)

RaceNext ==
    create_app \/ start_alone \/ OpenSession \/ ValidateState \/ ExchangeAndFetch \/ SaveSession

RaceSpec == Init /\ [][RaceNext]_vars

\* ------------------------------------------------------------- the claims
\* The callback's three gates, read off the request and the answers it met
\* (not off what the service reported).
StateMatches ==
    /\ last.pre["oauth_state"] # Absent
    /\ last.state = last.pre["oauth_state"]

GatesPassed ==
    /\ last.op = "callback"
    /\ StateMatches
    /\ last.token_status = Some("200")
    /\ last.profile_status = Some("200")
    /\ last.profile_body # Absent
    /\ DOMAIN Get(last.profile_body) # {}

\* C1: a callback whose received state differs from the stored oauth_state,
\* or that finds no oauth_state stored, or that carries no state, fails with
\* the invalid-state error and sends neither a token request nor a user-info
\* request, for every provider name and every session.
C1_MismatchFailsBeforeTokenExchange ==
    (last.op = "callback" /\ ~StateMatches)
        => /\ last.error = InvalidState
           /\ last.token_request = Absent
           /\ last.token_status = Absent
           /\ ~last.profile_request

\* C1 happens: a callback carrying a state met a session that stored another
\* one, and was refused.
C1_Witness ==
    /\ last.op = "callback"
    /\ last.pre["oauth_state"] # Absent
    /\ last.state # Absent
    /\ last.state # last.pre["oauth_state"]
    /\ last.error = InvalidState

\* C2 as claimed: after any callback attempt oauth_state is absent from the
\* session, also when the received state did not match.
C2_NonceAbsentAfterAnyCallback ==
    last.op = "callback" => session["oauth_state"] = Absent

\* C3: a callback that passes the three gates writes the fetched profile into
\* user_data, removes redirect_path, and returns the redirect_path it popped,
\* or the success page when none was stored.
C3_SuccessStoresProfileAndPopsRedirectPath ==
    GatesPassed
        => /\ last.error = NoError
           /\ session["user_data"] = last.profile_body
           /\ session["redirect_path"] = Absent
           /\ last.returned = Some(IF last.pre["redirect_path"] = Absent
                                   THEN url_for("auth.success", "")
                                   ELSE Get(last.pre["redirect_path"]))

\* C3 happens: the three gates passed with a redirect_path stored.
C3_Witness ==
    /\ GatesPassed
    /\ last.pre["redirect_path"] # Absent
    /\ session["user_data"] # Absent

\* The exceptions a refused token exchange ends with: BadRequest from
\* get_token's own request, OAuthError from the library's.
IsTokenExchangeError(error) == error \in {FailedToFetchToken, OAuthError}

\* The token endpoint answered the callback with a status other than 200.
TokenEndpointRefused ==
    /\ last.op = "callback"
    /\ last.token_status = Some("401")

\* C4 as claimed: when the token endpoint answers non-200 the callback fails
\* with the token-exchange error, sends no user-info request, and user_data
\* is absent from the session afterwards.
C4_TokenRefusedLeavesNoUserData ==
    TokenEndpointRefused
        => /\ IsTokenExchangeError(last.error)
           /\ ~last.profile_request
           /\ session["user_data"] = Absent

\* C4 amended: when the token endpoint answers non-200 the callback fails
\* with the token-exchange error, sends no user-info request, and does not
\* write user_data: the key keeps the value it had (absent if it was absent,
\* the earlier login's profile if there was one).
C4_TokenRefusedWritesNoUserData ==
    TokenEndpointRefused
        => /\ IsTokenExchangeError(last.error)
           /\ ~last.profile_request
           /\ last.profile_status = Absent
           /\ session["user_data"] = last.pre["user_data"]

\* C4 happens: the token endpoint refused, for linkedin (get_token's own
\* request) with a profile of an earlier login in the session.
C4_Witness ==
    /\ TokenEndpointRefused
    /\ last.provider = "linkedin"
    /\ last.pre["user_data"] # Absent

\* The user-info request of the callback did not bring a profile: another
\* status than 200, a body that is empty or not JSON, or no answer.
ProfileFetchFailed ==
    /\ last.op = "callback"
    /\ last.profile_request
    /\ \/ last.profile_status # Some("200")
       \/ last.profile_body = Absent
       \/ DOMAIN Get(last.profile_body) = {}

\* C5: when the user-info endpoint answers non-200 or with an empty body, or
\* the request raises, the callback fails with the profile-fetch error and
\* leaves user_data as it was.
C5_ProfileFailureWritesNoUserData ==
    ProfileFetchFailed
        => /\ last.error = FailedToFetchUserData
           /\ session["user_data"] = last.pre["user_data"]

\* C5 happens: the user-info endpoint answered 401 after a token was obtained.
C5_Witness ==
    /\ ProfileFetchFailed
    /\ last.token_status = Some("200")
    /\ last.profile_status = Some("401")
    /\ last.error = FailedToFetchUserData

\* C6: the callback route always answers with a redirect, to the success page
\* exactly when the three gates passed and user_data holds the fetched
\* profile, and to the failure page otherwise.
C6_CallbackAlwaysRedirects ==
    last.op = "callback"
        => /\ last.response.kind = "redirect"
           /\ last.response.url \in {url_for("auth.success", ""), url_for("auth.failure", "")}
           /\ (last.response.url = url_for("auth.success", ""))
                  <=> (GatesPassed /\ session["user_data"] = last.profile_body)

\* C6 happens: a callback failed after an earlier login had left a profile in
\* the session, and was answered with the failure page.
C6_Witness ==
    /\ last.op = "callback"
    /\ last.error # NoError
    /\ session["user_data"] # Absent
    /\ last.response = Redirect(url_for("auth.failure", ""))

\* C7 as claimed: for a provider name other than google, facebook and
\* linkedin, start and callback both fail with the unknown-provider error.
C7_UnknownProviderAlwaysRejected ==
    (last.op \in {"start", "callback"} /\ last.provider \notin OAuthProvider)
        => last.error = UnsupportedProvider

\* C8: logout leaves user_data, oauth_state and redirect_path absent, from
\* any session; and while user_data is absent the success page answers with
\* the failure redirect and the index page renders no user, user_data
\* becoming present again only by a callback that passed the three gates.
C8_LogoutClearsSessionUntilNextLogin ==
    [][ /\ last'.op = "logout"
            => /\ session'["user_data"] = Absent
               /\ session'["oauth_state"] = Absent
               /\ session'["redirect_path"] = Absent
        /\ (session["user_data"] = Absent /\ last'.op = "success")
            => last'.response = Redirect(url_for("auth.failure", ""))
        /\ (session["user_data"] = Absent /\ last'.op = "index")
            => last'.response.user = Absent
        /\ (session["user_data"] = Absent /\ session'["user_data"] # Absent)
            => (GatesPassed' /\ last'.error = NoError)
      ]_vars

\* C8 happens: a logout met a session holding a profile, a pending nonce and
\* a redirect_path, and cleared the three.
C8_Witness ==
    /\ last.op = "logout"
    /\ last.pre["user_data"] # Absent
    /\ last.pre["oauth_state"] # Absent
    /\ last.pre["redirect_path"] # Absent
    /\ session["user_data"] = Absent

\* C9: a start for google, facebook or linkedin that returns the provider
\* redirect carries a state that is present, is one of the drawn values (not
\* empty), equals the oauth_state then stored in the session, and was not the
\* state of any earlier start.
C9_StartIssuesFreshStoredState ==
    (last.op = "start" /\ last.provider \in OAuthProvider /\ last.error = NoError)
        => /\ last.response.kind = "redirect"
           /\ last.response.url = [endpoint |-> "authorize_url", provider |-> last.provider]
           /\ last.response.state # Absent
           /\ Get(last.response.state) \in Nonces
           /\ last.response.state = session["oauth_state"]
           /\ Get(last.response.state) \notin last.pre_issued

\* C9 happens: a second start, made while the first one's state was still
\* stored, returned a provider redirect.
C9_Witness ==
    /\ last.op = "start"
    /\ last.error = NoError
    /\ last.pre["oauth_state"] # Absent
    /\ last.pre_issued # {}
    /\ last.response.state # Absent

\* The common profile fields, and the field of a provider's user-info answer
\* each is taken from: LinkedIn's OpenID userinfo names the identifier sub.
CommonFields == {"id", "name", "email", "picture"}
ProviderField(provider, field) ==
    IF provider = "linkedin" /\ field = "id" THEN "sub" ELSE field

\* C10 as claimed: the profile written to user_data is the normalized one: it
\* has a common field exactly when the answer had the provider's field mapped
\* to it, with that field's value, and has no other field.
C10_StoredProfileIsNormalized ==
    (GatesPassed /\ last.error = NoError)
        => LET body == Get(last.profile_body)
               user_data == Get(session["user_data"])
           IN  /\ DOMAIN user_data \subseteq CommonFields
               /\ \A field \in CommonFields :
                     /\ field \in DOMAIN user_data
                            <=> ProviderField(last.provider, field) \in DOMAIN body
                     /\ field \in DOMAIN user_data
                            => user_data[field] = body[ProviderField(last.provider, field)]

\* C11: when a required credential is missing from the configuration, the
\* process fails at startup, on the configuration (the ImportError of the
\* settings that config.py could not build), and never serves a request:
\* the application is never running and no start or callback is ever handled.
C11_MissingCredentialStopsStartup ==
    (env # Credentials)
        => /\ app # "serving"
           /\ last.op \in {"init", "create_app"}
           /\ app = "failed" => (last.op = "create_app" /\ last.error = SettingsImportError)
           /\ app = "starting" => last.op = "init"

\* C11 happens: startup ran with exactly one credential missing, and failed.
C11_Witness ==
    /\ Cardinality(Credentials \ env) = 1
    /\ last.op = "create_app"
    /\ app = "failed"

\* C12 as claimed: the index page renders with the profile the callback
\* stored in the session while the user is logged in, and with no user
\* otherwise.
C12_IndexRendersStoredProfile ==
    last.op = "index"
        => /\ last.response.kind = "render"
           /\ last.response.user = session["user_data"]

\* C13: a nonce is accepted at most once: a callback carrying a state that an
\* earlier callback of the session already passed the state comparison with
\* fails with the invalid-state error and sends no token request, whatever
\* became of the earlier callback.
C13_NonceAcceptedAtMostOnce ==
    [][ (/\ last'.op = "callback"
         /\ last'.state # Absent
         /\ Get(last'.state) \in history.accepted)
            => /\ last'.error = InvalidState
               /\ last'.token_request = Absent
               /\ ~last'.profile_request
      ]_vars

\* C13 happens: after a later start had stored a new state, a callback
\* carrying an already accepted state was refused.
C13_Witness ==
    /\ last.op = "callback"
    /\ last.state # Absent
    /\ Get(last.state) \in history.accepted
    /\ last.pre["oauth_state"] # Absent
    /\ last.state # last.pre["oauth_state"]
    /\ last.error = InvalidState

\* C14 as claimed: the redirect_uri of a callback's token request equals the
\* redirect_uri of the authorization redirect returned by the start that
\* issued the state the callback validated, also when the start was for one
\* provider and the callback is for another.
C14_TokenRequestRepeatsRedirectUri ==
    (/\ last.op = "callback"
     /\ last.token_request # Absent
     /\ history.latest # Absent
     /\ Some(Get(history.latest).state) = last.state
     /\ Get(history.latest).redirect_uri # Absent)
        => Get(history.latest).redirect_uri = last.token_request

\* C15 as claimed: of the callback requests of one session that carry the
\* same nonce and are served interleaved, without a lock, at most one passes
\* the state comparison and at most one sends a token request.
C15_OneCallbackPerNonce ==
    \A i, j \in Threads :
        (i # j /\ threads[i].state # Absent /\ threads[i].state = threads[j].state)
            => /\ ~(threads[i].validated /\ threads[j].validated)
               /\ ~(threads[i].token_request # Absent /\ threads[j].token_request # Absent)

\* The page a login leads to: auth_callback's redirect after a successful
\* callback (auth.py:58), also the default of the pop at oauth.py:181.
PostLoginDestination == url_for("auth.success", "")

StartSucceeded ==
    /\ last.op = "start"
    /\ last.provider \in OAuthProvider
    /\ last.error = NoError

\* C16 as claimed: a start that returns the provider redirect changes only
\* oauth_state and redirect_path in the session (user_data and every other key
\* keep the value they had), and redirect_path then holds the intended
\* post-login destination.
C16_StartStoresPostLoginDestination ==
    StartSucceeded
        => /\ \A key \in SessionKeys \ {"oauth_state", "redirect_path"} :
                 session[key] = last.pre[key]
           /\ session["redirect_path"] = Some(PostLoginDestination)

\* C17: user_data is present in the session only if a callback made after the
\* session's last logout passed state validation, token exchange and profile
\* fetch; so the success page renders a profile only after such a callback,
\* and answers with the redirect to the failure page when there was none.
C17_UserDataOnlyAfterAcceptedCallback ==
    /\ session["user_data"] # Absent => history.logged_in
    /\ last.op = "success"
        => /\ last.response.kind = "render" => history.logged_in
           /\ ~history.logged_in => last.response = Redirect(url_for("auth.failure", ""))

\* C17 happens: the success page rendered the profile that a callback which
\* had passed the three gates left in the session.
C17_Witness ==
    /\ last.op = "success"
    /\ last.response = Render("success.html", session["user_data"])
    /\ session["user_data"] # Absent
    /\ history.accepted # {}

\* C18: when a start overwrote the state an earlier start had stored (no
\* callback having accepted it in between), a callback carrying the earlier
\* state fails with the invalid-state error before any token request, and a
\* callback that passes the state comparison carries the state of the latest
\* start.
C18_SecondStartOverwritesNonce ==
    /\ (/\ last.op = "callback"
        /\ last.state # Absent
        /\ Get(last.state) \in history.overwritten)
           => /\ last.error = InvalidState
              /\ ~last.validated
              /\ last.token_request = Absent
    /\ (last.op = "callback" /\ last.validated)
           => /\ history.latest # Absent
              /\ last.state = Some(Get(history.latest).state)

\* C18 happens: with the second start's state stored, a callback carried the
\* state the second start had overwritten and was refused.
C18_Witness ==
    /\ last.op = "callback"
    /\ last.state # Absent
    /\ Get(last.state) \in history.overwritten
    /\ last.pre["oauth_state"] # Absent
    /\ last.error = InvalidState

\* C19: a login can be restarted from every session state.  When a start for
\* a supported provider has returned the provider redirect and the next
\* request is the callback for that provider carrying the new state, the
\* callback passes the state comparison; with a code it sends the token
\* request, a token answer 200 is followed by the user-info request, and when
\* both answer 200 with a profile the callback ends without error and with
\* that profile in user_data.  A callback that passed the comparison, failed
\* at a later gate included, leaves no oauth_state; while none is stored every
\* callback fails before the token request, and only a start for a supported
\* provider stores one again.
C19_LoginCanBeRestarted ==
    [][ /\ (/\ last.op = "start"
            /\ last.provider \in OAuthProvider
            /\ last.response.state # Absent
            /\ last'.op = "callback"
            /\ last'.provider = last.provider
            /\ last'.state = last.response.state)
               => /\ last'.validated
                  /\ last'.code # Absent => last'.token_status # Absent
                  /\ last'.token_status = Some("200") => last'.profile_request
                  /\ (/\ last'.token_status = Some("200")
                      /\ last'.profile_status = Some("200")
                      /\ last'.profile_body # Absent
                      /\ DOMAIN Get(last'.profile_body) # {})
                         => /\ last'.error = NoError
                            /\ session'["user_data"] = last'.profile_body
        /\ (last'.op = "callback" /\ last'.validated)
               => session'["oauth_state"] = Absent
        /\ (session["oauth_state"] = Absent /\ last'.op = "callback")
               => /\ last'.error # NoError
                  /\ ~last'.validated
                  /\ last'.token_request = Absent
        /\ (session["oauth_state"] = Absent /\ session'["oauth_state"] # Absent)
               => (last'.op = "start" /\ last'.provider \in OAuthProvider)
      ]_vars

\* C19 happens: after a callback that had passed the state comparison and
\* left no profile, a new start was made and its callback stored the profile.
C19_Witness ==
    /\ GatesPassed
    /\ last.error = NoError
    /\ last.pre["user_data"] = Absent
    /\ history.accepted \ {Get(last.state)} # {}
    /\ session["user_data"] = last.profile_body

\* C20: a start for a provider name that is none of google, facebook and
\* linkedin fails with the unsupported-provider error, leaves oauth_state,
\* redirect_path and user_data as they were before the call, returns no
\* redirect to a provider, and is answered with the redirect to the index
\* page.
C20_UnresolvedStartChangesNothing ==
    (last.op = "start" /\ last.provider \notin OAuthProvider)
        => /\ last.error = UnsupportedProvider
           /\ session["oauth_state"] = last.pre["oauth_state"]
           /\ session["redirect_path"] = last.pre["redirect_path"]
           /\ session["user_data"] = last.pre["user_data"]
           /\ last.response = Redirect(url_for("auth.index", ""))
           /\ last.response.state = Absent

\* C20 happens: the failing start met a session holding a profile and a
\* pending login.
C20_Witness ==
    /\ last.op = "start"
    /\ last.provider \notin OAuthProvider
    /\ last.pre["oauth_state"] # Absent
    /\ last.pre["redirect_path"] # Absent
    /\ last.pre["user_data"] # Absent
====
